---- MODULE Spec2Model ----
(***************************************************************************)
(* Model of src/scripts/main2.py: the feature-engineering and score        *)
(* adjustment pipeline of the NFL score predictor.                         *)
(*                                                                         *)
(* The script is a sequential batch job.  Each stage is a pure function of *)
(* the data frames handed to it, so every stage is modelled by operators   *)
(* that compute what the pandas/numpy expressions compute, and by a        *)
(* specification that draws the stage's input frames from bounded sets and *)
(* then runs the stage's statements in program order:                      *)
(*   SpecAgg    build_game_level_df and the score merge     (lines 18-67)  *)
(*   SpecRoll   compute_rolling_team_stats                  (lines 78-88)  *)
(*   SpecMatch  add_matchup_adjusted_features               (lines 95-111) *)
(*   SpecPred   baselines, make_prediction_df, pivot, grade (lines 148-245)*)
(*   SpecBlend  blend_common_score                          (lines 191-201)*)
(* Floating point values are modelled as exact rationals <<num, den>>.     *)
(* The twelve base feature columns are handled by one and the same         *)
(* expression everywhere except total_epa (home field advantage); the      *)
(* model carries total_epa and yards.                                      *)
(***************************************************************************)
EXTENDS Integers, Sequences, FiniteSets, TLC

VARIABLES
    pc,                  \* position of the script within the stage
    pbp_hist,            \* play-by-play rows                       (line 13)
    hist_games,          \* build_game_level_df(pbp_hist)           (line 54)
    hist_merged,         \* hist_games merged with scores_long      (line 67)
    roll_df,             \* argument df of compute_rolling_team_stats
    n_seasons,           \* argument n_seasons of compute_rolling_team_stats
    rolled,              \* its return value                        (line 90)
    match_df,            \* argument df of add_matchup_adjusted_features
    match_df_alt,        \* the same frame with one row changed or removed
    match_out,           \* add_matchup_adjusted_features(match_df)
    match_out_alt,       \* add_matchup_adjusted_features(match_df_alt)
    games_recent,        \* recent-window game rows                 (line 146)
    team_common_scores,  \* most common score per team              (line 152)
    schedule_2025,       \* schedule rows of the season to predict  (line 133)
    pred_input,          \* make_prediction_df(schedule_2025)       (line 209)
    final_preds,         \* game-level predictions                  (lines 217-245)
    blend_team,          \* argument team of blend_common_score
    blend_raw,           \* argument score of blend_common_score
    pre_snap,            \* local score after line 196
    blend_out            \* return value of blend_common_score

vars == <<pc, pbp_hist, hist_games, hist_merged, roll_df, n_seasons, rolled,
          match_df, match_df_alt, match_out, match_out_alt, games_recent,
          team_common_scores, schedule_2025, pred_input, final_preds,
          blend_team, blend_raw, pre_snap, blend_out>>

aggVars == <<pbp_hist, hist_games, hist_merged>>
rollVars == <<roll_df, n_seasons, rolled>>
matchVars == <<match_df, match_df_alt, match_out, match_out_alt>>
predVars == <<games_recent, team_common_scores, schedule_2025, pred_input, final_preds>>
blendVars == <<blend_team, blend_raw, pre_snap, blend_out>>

\* Value of a variable that the stage under check does not use.
Unused == <<>>

\* pandas' missing value (NaN / None); a score that is present is Known(v).
Null == <<>>
Known(v) == <<v>>

----------------------------------------------------------------------------
(* Exact rational arithmetic standing in for float64.                      *)

Abs(n) == IF n < 0 THEN -n ELSE n

RECURSIVE GCD(_, _)
GCD(a, b) == IF b = 0 THEN a ELSE GCD(b, a % b)

\* The rational n/d (d # 0) in lowest terms with a positive denominator.
Rat(n, d) ==
    LET s == IF d < 0 THEN -1 ELSE 1
        g == GCD(Abs(n), Abs(d))
    IN  <<(s * n) \div g, (s * d) \div g>>

RInt(n) == <<n, 1>>
RAdd(a, b) == Rat(a[1] * b[2] + b[1] * a[2], a[2] * b[2])
RSub(a, b) == Rat(a[1] * b[2] - b[1] * a[2], a[2] * b[2])
RMul(a, b) == Rat(a[1] * b[1], a[2] * b[2])
RLt(a, b) == a[1] * b[2] < b[1] * a[2]
RLe(a, b) == a[1] * b[2] <= b[1] * a[2]
RAbs(a) == <<Abs(a[1]), a[2]>>
\* floor(a / k) for an integer k > 0 (Python's // on floats floors).
RFloorDiv(a, k) == a[1] \div (a[2] * k)
\* a % k, in [0, k) (Python's % takes the sign of the divisor).
RMod(a, k) == RSub(a, RInt(k * RFloorDiv(a, k)))

RECURSIVE SumSeq(_)
SumSeq(s) == IF s = <<>> THEN 0 ELSE Head(s) + SumSeq(Tail(s))

\* Series.mean() of a non-empty sequence of integers.
MeanSeq(s) == Rat(SumSeq(s), Len(s))

Column(s, col) == [i \in 1..Len(s) |-> s[i].stats[col]]

----------------------------------------------------------------------------
(* Shared data.                                                            *)

\* Representatives of base_feature_cols (lines 73-76).
base_feature_cols == {"total_epa", "yards"}

\* Team identifiers, in the order sort_values gives them.
Teams == <<"AA", "BB", "ZZ">>
TeamRank(t) == CHOOSE i \in 1..Len(Teams) : Teams[i] = t

----------------------------------------------------------------------------
(* blend_common_score (lines 191-201).                                     *)

\* Defaults of make_prediction_df (line 159).
blend_common == <<3, 10>>
add_points == 3

\* np.array([3, 7]) (line 199).
multiples == <<3, 7>>

\* Mutant: argmin resolved to the last index of minimal distance.
argmin_dist_last(r) ==
    LET dist(i) == RAbs(RSub(RInt(multiples[i]), r))
    IN  CHOOSE i \in 1..Len(multiples) :
            /\ \A j \in 1..Len(multiples) : RLe(dist(i), dist(j))
            /\ \A j \in (i + 1)..Len(multiples) : RLt(dist(i), dist(j))

\* np.abs(multiples - r).argmin(): the first index of minimal distance.
argmin_dist(r) ==
    LET dist(i) == RAbs(RSub(RInt(multiples[i]), r))
    IN  CHOOSE i \in 1..Len(multiples) :
            /\ \A j \in 1..Len(multiples) : RLe(dist(i), dist(j))
            /\ \A j \in 1..(i - 1) : RLt(dist(i), dist(j))

\* Line 200: multiples[argmin] + 10 * (score // 10).
snap_score(score) ==
    RAdd(RInt(multiples[argmin_dist(RMod(score, 10))]),
         RInt(10 * RFloorDiv(score, 10)))

\* Mutant: the constant is added before the blend instead of after it.
blend_pre_snap_add_first(team, score, tcs) ==
    IF team \in DOMAIN tcs
    THEN RAdd(RMul(RAdd(score, RInt(add_points)), RSub(RInt(1), blend_common)),
              RMul(RInt(tcs[team]), blend_common))
    ELSE RAdd(score, RInt(add_points))

\* Lines 192-196: the local score after blending and adding add_points.
blend_pre_snap(team, score, tcs) ==
    LET blended ==
            IF team \in DOMAIN tcs
            THEN RAdd(RMul(score, RSub(RInt(1), blend_common)),
                      RMul(RInt(tcs[team]), blend_common))
            ELSE score
    IN  RAdd(blended, RInt(add_points))

blend_common_score(team, score, tcs) == snap_score(blend_pre_snap(team, score, tcs))

\* Bounds of the blend stage's inputs: raw scores n/RawDen for n in
\* -MaxRawNum..MaxRawNum, common scores from CommonScores.
MaxRawNum == 44
RawDen == 4
RawScores == {Rat(n, RawDen) : n \in (-MaxRawNum)..MaxRawNum}
CommonScores == {17, 20, 24}
CommonTables == {<<>>} \cup {[t \in {"AA"} |-> c] : c \in CommonScores}

InitBlend ==
    /\ pc = "blend"
    /\ blend_team \in {"AA", "ZZ"}
    /\ blend_raw \in RawScores
    /\ team_common_scores \in CommonTables
    /\ pre_snap = Null
    /\ blend_out = Null
    /\ pbp_hist = Unused /\ hist_games = Unused /\ hist_merged = Unused
    /\ roll_df = Unused /\ n_seasons = Unused /\ rolled = Unused
    /\ match_df = Unused /\ match_df_alt = Unused
    /\ match_out = Unused /\ match_out_alt = Unused
    /\ games_recent = Unused /\ schedule_2025 = Unused
    /\ pred_input = Unused /\ final_preds = Unused

\* One call blend_common_score(blend_team, blend_raw).
BlendCommonScore ==
    /\ pc = "blend"
    /\ pre_snap' = blend_pre_snap(blend_team, blend_raw, team_common_scores)
    /\ blend_out' = blend_common_score(blend_team, blend_raw, team_common_scores)
    /\ pc' = "done"
    /\ UNCHANGED <<blend_team, blend_raw, team_common_scores>>
    /\ UNCHANGED <<aggVars, rollVars, matchVars>>
    /\ UNCHANGED <<games_recent, schedule_2025, pred_input, final_preds>>

NextBlend == BlendCommonScore

SpecBlend == InitBlend /\ [][NextBlend]_vars

\* C4: the returned score is 10*floor(x/10) + c for the pre-snap score x, where
\* c is the member of {3, 7} closest to x mod 10 (taken in [0,10)), c = 3 when
\* the remainder is exactly 5; so the final score's ones digit is 3 or 7.
C4_SnapToThreeOrSeven ==
    pc = "done" =>
        LET x == pre_snap
            r == RMod(x, 10)
            q == RFloorDiv(x, 10)
            c == IF RLe(RAbs(RSub(r, RInt(3))), RAbs(RSub(r, RInt(7)))) THEN 3 ELSE 7
        IN  /\ RLe(RInt(0), r) /\ RLt(r, RInt(10))
            /\ blend_out = RInt(10 * q + c)
            /\ (r = RInt(5) => blend_out = RInt(10 * q + 3))
            /\ blend_out[2] = 1
            /\ blend_out[1] % 10 \in {3, 7}
            /\ Abs(blend_out[1]) % 10 \in {3, 7}

\* A score whose remainder is exactly 5 has been snapped (to ...3).
C4_Witness ==
    /\ pc = "done"
    /\ RMod(pre_snap, 10) = RInt(5)
    /\ blend_out[1] % 10 = 3

\* C5: with a CommonScore the pre-snap value is raw*(1-0.3) + common*0.3 + 3,
\* without one it is raw + 3; a value is returned in both cases and the
\* constant is added once, after the blend and before the snap.
C5_BlendThenAdd ==
    pc = "done" =>
        LET expected ==
                IF blend_team \in DOMAIN team_common_scores
                THEN RAdd(RAdd(RMul(blend_raw, <<7, 10>>),
                               RMul(RInt(team_common_scores[blend_team]), <<3, 10>>)),
                          RInt(3))
                ELSE RAdd(blend_raw, RInt(3))
        IN  /\ pre_snap # Null
            /\ blend_out # Null
            /\ pre_snap = expected
            /\ blend_out = snap_score(expected)

\* A raw score of 5 has been blended with a CommonScore of 17: 3.5 + 5.1 + 3.
C5_Witness ==
    /\ pc = "done"
    /\ blend_team \in DOMAIN team_common_scores
    /\ team_common_scores[blend_team] = 17
    /\ blend_raw = RInt(5)
    /\ pre_snap = <<58, 5>>

----------------------------------------------------------------------------
(* Baselines, make_prediction_df, pivot and grading (lines 148-245).       *)

HOME_FIELD_ADV == <<5, 2>>

RowsOfTeam(frame, t) == SelectSeq(frame, LAMBDA r : r.team = t)
FrameTeams(frame) == {frame[i].team : i \in 1..Len(frame)}

\* Lines 148-149: games_recent.groupby("team")[base_feature_cols].mean().
team_baselines(gr) ==
    [t \in FrameTeams(gr) |->
        [col \in base_feature_cols |-> MeanSeq(Column(RowsOfTeam(gr, t), col))]]

\* Mutant: a team without a baseline gets zeros instead of the frame's mean.
base_features_zero_fallback(team, opp, gr) ==
    LET tb == team_baselines(gr)
    IN  IF team \in DOMAIN tb
        THEN [col \in base_feature_cols |->
                RSub(tb[team][col],
                     IF opp \in DOMAIN tb THEN tb[opp][col] ELSE RInt(0))]
        ELSE [col \in base_feature_cols |-> RInt(0)]

\* Lines 167-174: the base feature assignment of one entry.
base_features(team, opp, gr) ==
    LET tb == team_baselines(gr)
    IN  IF team \in DOMAIN tb
        THEN [col \in base_feature_cols |->
                RSub(tb[team][col],
                     IF opp \in DOMAIN tb THEN tb[opp][col] ELSE RInt(0))]
        ELSE [col \in base_feature_cols |-> MeanSeq(Column(gr, col))]

\* Lines 164-183: one entry of preds.
make_entry(row, team, opp, is_home, gr) ==
    LET base == base_features(team, opp, gr)
    IN  [game_id |-> row.game_id, team |-> team, opp |-> opp, is_home |-> is_home,
         base |-> IF is_home
                  THEN [base EXCEPT !["total_epa"] = RAdd(@, HOME_FIELD_ADV)]
                  ELSE base,
         vs_opp |-> [col \in base_feature_cols |-> RInt(0)]]

\* Lines 161-183: the home entry and the away entry of every schedule row.
RECURSIVE prediction_entries(_, _)
prediction_entries(schedule, gr) ==
    IF schedule = <<>> THEN <<>>
    ELSE LET row == Head(schedule)
         IN  <<make_entry(row, row.home_team, row.away_team, TRUE, gr),
               make_entry(row, row.away_team, row.home_team, FALSE, gr)>>
             \o prediction_entries(Tail(schedule), gr)

\* Lines 185-207: raw[i] is model.predict's output for entry i (the estimator is
\* an external black box); predicted_score is its blended and snapped value.
make_prediction_df(schedule, gr, tcs, raw) ==
    LET preds == prediction_entries(schedule, gr)
    IN  [i \in 1..Len(preds) |->
            preds[i] @@ [predicted_score |->
                            blend_common_score(preds[i].team, raw[i], tcs)]]

\* Lines 214-222: merge of the home and away entries on game_id, and the
\* projected winner.
RECURSIVE pivot_merge(_, _)
pivot_merge(home_preds, away_preds) ==
    IF home_preds = <<>> THEN <<>>
    ELSE LET h == Head(home_preds)
             matches == SelectSeq(away_preds, LAMBDA a : a.game_id = h.game_id)
         IN  [k \in 1..Len(matches) |->
                [game_id |-> h.game_id,
                 home_team |-> h.team, home_pred_score |-> h.predicted_score,
                 away_team |-> matches[k].team,
                 away_pred_score |-> matches[k].predicted_score,
                 projected_winner |->
                    IF RLt(matches[k].predicted_score, h.predicted_score)
                    THEN h.team ELSE matches[k].team]]
             \o pivot_merge(Tail(home_preds), away_preds)

pivot_predictions(preds) ==
    pivot_merge(SelectSeq(preds, LAMBDA e : e.is_home),
                SelectSeq(preds, LAMBDA e : ~e.is_home))

\* a > b on a pandas column: False when either side is missing.
GreaterThan(a, b) == a # Null /\ b # Null /\ a[1] > b[1]

\* Lines 235-245: left merge of the actual scores on game_id, and the
\* correctness flag.
RECURSIVE grade_predictions(_, _)
grade_predictions(fp, schedule) ==
    IF fp = <<>> THEN <<>>
    ELSE LET p == Head(fp)
             matches == SelectSeq(schedule, LAMBDA s : s.game_id = p.game_id)
         IN  [k \in 1..Len(matches) |->
                p @@ [home_score |-> matches[k].home_score,
                      away_score |-> matches[k].away_score,
                      predicted_winner_correct |->
                        (p.projected_winner =
                            IF GreaterThan(matches[k].home_score, matches[k].away_score)
                            THEN p.home_team ELSE p.away_team)]]
             \o grade_predictions(Tail(fp), schedule)

\* Bounds of the prediction stage's inputs.
MaxRecent == 3
PredStatVals == {1, 2}
StatRow(team, v) ==
    [team |-> team, stats |-> [col \in base_feature_cols |->
                                  IF col = "total_epa" THEN v ELSE 7 - 2 * v]]
BoundedSeqs(S, n) == UNION {[1..k -> S] : k \in 0..n}
RecentFrames ==
    {[i \in 1..Len(a) |-> StatRow("AA", a[i])] \o [i \in 1..Len(b) |-> StatRow("BB", b[i])] :
        <<a, b>> \in {p \in BoundedSeqs(PredStatVals, MaxRecent)
                            \X BoundedSeqs(PredStatVals, MaxRecent) :
                        Len(p[1]) + Len(p[2]) \in 1..MaxRecent}}
ScheduledPairs == {p \in {"AA", "BB", "ZZ"} \X {"AA", "BB", "ZZ"} : p[1] # p[2]}
ActualScores == {<<Null, Null>>, <<Known(17), Known(20)>>, <<Known(20), Known(17)>>,
                 <<Known(20), Known(20)>>}
PredCommonTables == {<<>>, [t \in {"AA"} |-> 17]}
PredRawScores == {RInt(20), RInt(24)}

InitPred ==
    /\ pc = "predict"
    /\ games_recent \in RecentFrames
    /\ team_common_scores \in PredCommonTables
    /\ \E p \in ScheduledPairs, s \in ActualScores :
          schedule_2025 = <<[game_id |-> "2025_01", home_team |-> p[1],
                             away_team |-> p[2], home_score |-> s[1],
                             away_score |-> s[2]]>>
    /\ pred_input = Null
    /\ final_preds = Null
    /\ pbp_hist = Unused /\ hist_games = Unused /\ hist_merged = Unused
    /\ roll_df = Unused /\ n_seasons = Unused /\ rolled = Unused
    /\ match_df = Unused /\ match_df_alt = Unused
    /\ match_out = Unused /\ match_out_alt = Unused
    /\ blend_team = Unused /\ blend_raw = Unused
    /\ pre_snap = Unused /\ blend_out = Unused

\* Line 209: pred_input = make_prediction_df(schedule_2025).
MakePrediction ==
    /\ pc = "predict"
    /\ \E raw \in [1..(2 * Len(schedule_2025)) -> PredRawScores] :
          pred_input' = make_prediction_df(schedule_2025, games_recent,
                                           team_common_scores, raw)
    /\ pc' = "pivot"
    /\ UNCHANGED <<games_recent, team_common_scores, schedule_2025, final_preds>>
    /\ UNCHANGED <<aggVars, rollVars, matchVars, blendVars>>

\* Lines 214-222.
PivotPredictions ==
    /\ pc = "pivot"
    /\ final_preds' = pivot_predictions(pred_input)
    /\ pc' = "grade"
    /\ UNCHANGED <<games_recent, team_common_scores, schedule_2025, pred_input>>
    /\ UNCHANGED <<aggVars, rollVars, matchVars, blendVars>>

\* Lines 233-245.
GradePredictions ==
    /\ pc = "grade"
    /\ final_preds' = grade_predictions(final_preds, schedule_2025)
    /\ pc' = "saved"
    /\ UNCHANGED <<games_recent, team_common_scores, schedule_2025, pred_input>>
    /\ UNCHANGED <<aggVars, rollVars, matchVars, blendVars>>

NextPred == MakePrediction \/ PivotPredictions \/ GradePredictions

SpecPred == InitPred /\ [][NextPred]_vars

Predicted == pc \in {"pivot", "grade", "saved"}

\* C3: every entry whose team has a baseline carries that team's own baseline
\* mean in each base feature, whatever the opponent, plus 2.5 in the home
\* entry's total_epa only; every _vs_opp feature is 0.
C3_OwnBaselineFeatures ==
    Predicted =>
        \A i \in 1..Len(pred_input) :
            LET e == pred_input[i]
                tb == team_baselines(games_recent)
            IN  e.team \in DOMAIN tb =>
                    \A col \in base_feature_cols :
                        /\ e.base[col] =
                              IF e.is_home /\ col = "total_epa"
                              THEN RAdd(tb[e.team][col], <<5, 2>>)
                              ELSE tb[e.team][col]
                        /\ e.vs_opp[col] = RInt(0)

\* C7 as stated: every entry of a team without a baseline, home or away,
\* carries the frame-wide mean in every base feature.
C7_FallbackIsMean ==
    Predicted =>
        \A i \in 1..Len(pred_input) :
            LET e == pred_input[i]
            IN  e.team \notin FrameTeams(games_recent) =>
                    \A col \in base_feature_cols :
                        e.base[col] = MeanSeq(Column(games_recent, col))

\* C7, amended: every entry of a team without a baseline carries the
\* frame-wide mean in every base feature, except that the home entry's
\* total_epa is that mean plus 2.5.
C7_FallbackIsMeanPlusHomeField ==
    Predicted =>
        \A i \in 1..Len(pred_input) :
            LET e == pred_input[i]
            IN  e.team \notin FrameTeams(games_recent) =>
                    \A col \in base_feature_cols :
                        e.base[col] =
                            IF e.is_home /\ col = "total_epa"
                            THEN RAdd(MeanSeq(Column(games_recent, col)), <<5, 2>>)
                            ELSE MeanSeq(Column(games_recent, col))

\* A home entry and an away entry of teams without a baseline have been built
\* from a frame of more than one row.
C7_Witness ==
    /\ Predicted
    /\ Len(games_recent) > 1
    /\ \E i \in 1..Len(pred_input) :
          pred_input[i].team \notin FrameTeams(games_recent) /\ pred_input[i].is_home
    /\ \E i \in 1..Len(pred_input) :
          pred_input[i].team \notin FrameTeams(games_recent) /\ ~pred_input[i].is_home

\* C10: a game is flagged as correctly predicted only if both actual scores
\* are known and the projected winner has the strictly higher actual score.
C10_CorrectOnlyWhenGraded ==
    pc = "saved" =>
        \A i \in 1..Len(final_preds) :
            LET g == final_preds[i]
            IN  g.predicted_winner_correct =>
                    /\ g.home_score # Null
                    /\ g.away_score # Null
                    /\ \/ g.projected_winner = g.home_team /\ g.home_score[1] > g.away_score[1]
                       \/ g.projected_winner = g.away_team /\ g.away_score[1] > g.home_score[1]

----------------------------------------------------------------------------
(* compute_rolling_team_stats (lines 78-88).                               *)

Min(a, b) == IF a < b THEN a ELSE b
Max(a, b) == IF a > b THEN a ELSE b

\* Stable insertion sort of a sequence of [key, row] records by integer key.
RECURSIVE InsertByKey(_, _)
InsertByKey(s, x) ==
    IF s = <<>> THEN <<x>>
    ELSE IF s[Len(s)].key <= x.key THEN Append(s, x)
         ELSE Append(InsertByKey(SubSeq(s, 1, Len(s) - 1), x), s[Len(s)])

RECURSIVE SortByKey(_)
SortByKey(s) ==
    IF s = <<>> THEN <<>>
    ELSE InsertByKey(SortByKey(SubSeq(s, 1, Len(s) - 1)), s[Len(s)])

\* sort_values: s ordered by keys[i], the sort key of s[i], ties kept in input
\* order (a sort on several columns is a stable lexsort).
StableSort(s, keys) ==
    LET keyed == SortByKey([i \in 1..Len(s) |-> [key |-> keys[i], row |-> s[i]]])
    IN  [i \in 1..Len(s) |-> keyed[i].row]

\* Order of sort_values(["team","season","week"]) (line 80); weeks are below
\* 100 and seasons below 10000.
TeamSeasonWeekKey(r) == (TeamRank(r.team) * 10000 + r.season) * 100 + r.week

\* Series.unique(): the distinct values in order of first appearance.
RECURSIVE unique(_)
unique(s) ==
    IF s = <<>> THEN <<>>
    ELSE LET rest == unique(SubSeq(s, 1, Len(s) - 1))
         IN  IF \E i \in 1..Len(rest) : rest[i] = s[Len(s)]
             THEN rest ELSE Append(rest, s[Len(s)])

RECURSIVE SumRange(_, _, _)
SumRange(f, lo, hi) == IF lo > hi THEN 0 ELSE f[hi] + SumRange(f, lo, hi - 1)

\* Mutant: the window reaches one game further back.
rolling_mean_wide(vals, window) ==
    [i \in 1..Len(vals) |->
        LET lo == Max(1, i - window)
        IN  Rat(SumRange(vals, lo, i), i - lo + 1)]

\* rolling(window=window, min_periods=1).mean() of one column (line 85).
rolling_mean(vals, window) ==
    [i \in 1..Len(vals) |->
        LET lo == Max(1, i - window + 1)
        IN  Rat(SumRange(vals, lo, i), i - lo + 1)]

\* Lines 84-85: one team's rows with every base column rolled.
rolled_team_df(sorted, team, window) ==
    LET team_df == SelectSeq(sorted, LAMBDA r : r.team = team)
        means == [col \in base_feature_cols |-> rolling_mean(Column(team_df, col), window)]
    IN  [i \in 1..Len(team_df) |->
            [team_df[i] EXCEPT !.stats = [col \in base_feature_cols |-> means[col][i]]]]

RECURSIVE concat_rolled(_, _, _)
concat_rolled(sorted, teams, window) ==
    IF teams = <<>> THEN <<>>
    ELSE rolled_team_df(sorted, Head(teams), window)
         \o concat_rolled(sorted, Tail(teams), window)

\* Lines 79-88 with the window size as given to rolling().
rolling_team_stats(df, window) ==
    LET sorted == StableSort(df, [i \in 1..Len(df) |-> TeamSeasonWeekKey(df[i])])
    IN  concat_rolled(sorted, unique([i \in 1..Len(sorted) |-> sorted[i].team]), window)

\* Games per season in the window size n_seasons*17 (line 85).
GamesPerSeason == 17

compute_rolling_team_stats(df, n) == rolling_team_stats(df, n * GamesPerSeason)

\* Bounds of the rolling stage's inputs: team AA plays up to MaxGames games,
\* team BB up to MaxOtherGames, n_seasons is at most MaxNSeasons.
MaxGames == 19
MaxOtherGames == 2
MaxNSeasons == 2
FirstSeason == 2018

\* Game k of a team in chronological order.
GameRow(team, k, epa, yards) ==
    [team |-> team, season |-> FirstSeason + (k - 1) \div GamesPerSeason,
     week |-> ((k - 1) % GamesPerSeason) + 1,
     stats |-> [col \in base_feature_cols |-> IF col = "total_epa" THEN epa ELSE yards]]

\* Order of the merged game frame: by game (season, week), then team.
SeasonWeekTeamKey(r) == (r.season * 100 + r.week) * 100 + TeamRank(r.team)

Reverse(s) == [i \in 1..Len(s) |-> s[Len(s) + 1 - i]]

\* AA: n games, total_epa 3 in game p and 0 elsewhere, yards k*k in game k;
\* BB: m games of total_epa 5 and yards 100 + k.
RollFrame(n, p, m) ==
    LET rows == [k \in 1..n |-> GameRow("AA", k, IF k = p THEN 3 ELSE 0, k * k)]
                   \o [k \in 1..m |-> GameRow("BB", k, 5, 100 + k)]
    IN  StableSort(rows, [i \in 1..Len(rows) |-> SeasonWeekTeamKey(rows[i])])

InitRoll ==
    /\ pc = "roll"
    /\ \E n \in 1..MaxGames, m \in 0..MaxOtherGames, rev \in BOOLEAN :
         \E p \in 1..n :
            roll_df = IF rev THEN Reverse(RollFrame(n, p, m)) ELSE RollFrame(n, p, m)
    /\ n_seasons \in 1..MaxNSeasons
    /\ rolled = Null
    /\ pbp_hist = Unused /\ hist_games = Unused /\ hist_merged = Unused
    /\ match_df = Unused /\ match_df_alt = Unused
    /\ match_out = Unused /\ match_out_alt = Unused
    /\ games_recent = Unused /\ team_common_scores = Unused /\ schedule_2025 = Unused
    /\ pred_input = Unused /\ final_preds = Unused
    /\ blend_team = Unused /\ blend_raw = Unused
    /\ pre_snap = Unused /\ blend_out = Unused

\* Line 90: hist_merged = compute_rolling_team_stats(hist_merged, n_seasons).
ComputeRolling ==
    /\ pc = "roll"
    /\ rolled' = compute_rolling_team_stats(roll_df, n_seasons)
    /\ pc' = "done"
    /\ UNCHANGED <<roll_df, n_seasons>>
    /\ UNCHANGED <<aggVars, matchVars, predVars, blendVars>>

NextRoll == ComputeRolling

SpecRoll == InitRoll /\ [][NextRoll]_vars

\* The input row of roll_df that the output row o comes from.
RollSource(o) ==
    CHOOSE j \in 1..Len(roll_df) :
        /\ roll_df[j].team = o.team
        /\ roll_df[j].season = o.season
        /\ roll_df[j].week = o.week

\* j2 is a game of j's team played no later than j.
NotLater(j2, j) ==
    /\ roll_df[j2].team = roll_df[j].team
    /\ \/ roll_df[j2].season < roll_df[j].season
       \/ roll_df[j2].season = roll_df[j].season /\ roll_df[j2].week <= roll_df[j].week

\* GameRanks[j] = i when row j is the i-th game of its team in
\* (season, week) order.
GameRanks ==
    [j \in 1..Len(roll_df) |-> Cardinality({j2 \in 1..Len(roll_df) : NotLater(j2, j)})]

RECURSIVE SumOver(_, _, _)
SumOver(S, frame, col) ==
    IF S = {} THEN 0
    ELSE LET j == CHOOSE x \in S : TRUE
         IN  frame[j].stats[col] + SumOver(S \ {j}, frame, col)

\* C8: for every team and its i-th game in (season, week) order, each rolled
\* statistic is the mean of that team's raw values over its most recent
\* min(i, W) games up to and including game i (W = 17 * n_seasons); the first
\* game keeps its raw value; and with a window of 1 every row keeps its raw
\* values.
C8_TrailingMean ==
    pc = "done" =>
        LET W == 17 * n_seasons
            one == rolling_team_stats(roll_df, 1)
        IN  /\ Len(rolled) = Len(roll_df)
            /\ \A rank \in {GameRanks} :
               \A x \in 1..Len(rolled) :
               \A j \in {RollSource(rolled[x])} :
               \A recent \in {{j2 \in 1..Len(roll_df) :
                                  /\ roll_df[j2].team = roll_df[j].team
                                  /\ rank[j2] <= rank[j]
                                  /\ rank[j2] > rank[j] - Min(rank[j], W)}} :
               \A col \in base_feature_cols :
                    /\ Cardinality(recent) = Min(rank[j], W)
                    /\ rolled[x].stats[col] =
                          Rat(SumOver(recent, roll_df, col), Min(rank[j], W))
                    /\ (rank[j] = 1 => rolled[x].stats[col] = RInt(roll_df[j].stats[col]))
            /\ Len(one) = Len(roll_df)
            /\ \A x \in 1..Len(one) :
                 \E j \in 1..Len(roll_df) :
                    /\ roll_df[j].team = one[x].team
                    /\ roll_df[j].season = one[x].season
                    /\ roll_df[j].week = one[x].week
                    /\ \A col \in base_feature_cols :
                          one[x].stats[col] = RInt(roll_df[j].stats[col])

\* A team has played more games than the window holds, beside another team's
\* games, and its last game's average has dropped the early game with
\* total_epa 3.
C8_Witness ==
    /\ pc = "done"
    /\ n_seasons = 1
    /\ \E x \in 1..Len(rolled) :
          /\ rolled[x].team = "AA"
          /\ rolled[x].season = FirstSeason + 1
          /\ rolled[x].week = 2
          /\ rolled[x].stats["total_epa"] = RInt(0)
    /\ \E j \in 1..Len(roll_df) :
          roll_df[j].team = "AA" /\ roll_df[j].stats["total_epa"] = 3
    /\ \E j \in 1..(Len(roll_df) - 1) :
          roll_df[j].team = "BB" /\ roll_df[j + 1].team = "AA"

----------------------------------------------------------------------------
(* add_matchup_adjusted_features (lines 95-111).                           *)

\* Mutant: the season filter lets the row's own season through.
opp_prior_rows_same_season(df, row) ==
    SelectSeq(df, LAMBDA r : r.team = row.opp /\ r.season <= row.season)

\* Line 101: the rows of the opponent from seasons before the row's season.
opp_prior_rows(df, row) ==
    SelectSeq(df, LAMBDA r : r.team = row.opp /\ r.season < row.season)

\* Mutant: the opponent's last earlier row instead of the mean of its rows.
opp_baseline_last_row(df, row, col) ==
    LET prior == opp_prior_rows(df, row)
    IN  RInt(prior[Len(prior)].stats[col])

\* Lines 101 and 103: groupby('team')[...].mean() of the filtered rows holds
\* one group, the opponent's, and iloc[-1] is that group's mean.
opp_baseline(df, row, col) == MeanSeq(Column(opp_prior_rows(df, row), col))

\* Mutant: the fallback averages the row's own team instead of the frame.
fallback_baseline_own_team(df, row, col) ==
    MeanSeq(Column(SelectSeq(df, LAMBDA r : r.team = row.team), col))

\* Line 105: df[base_feature_cols].mean(), over every row of the frame.
fallback_baseline(df, row, col) == MeanSeq(Column(df, col))

\* Lines 100-108: the _vs_opp values of one row.
team_stats_vs_opp(df, row) ==
    [col \in base_feature_cols |->
        IF opp_prior_rows(df, row) # <<>>
        THEN RSub(RInt(row.stats[col]), opp_baseline(df, row, col))
        ELSE RSub(RInt(row.stats[col]), fallback_baseline(df, row, col))]

\* Lines 96-111.
add_matchup_adjusted_features(df) ==
    [i \in 1..Len(df) |-> df[i] @@ [vs_opp |-> team_stats_vs_opp(df, df[i])]]

\* Bounds of the matchup stage's inputs: teams AA and BB meet in the game
\* slots MatchSlots; each team has a row for a slot or not, with total_epa in
\* 1..MaxStat.
MaxStat == 2
MatchSlots == <<[season |-> 2018, week |-> 1], [season |-> 2018, week |-> 2],
                [season |-> 2019, week |-> 1]>>
MatchTeams == <<"AA", "BB">>
OtherTeam(t) == IF t = "AA" THEN "BB" ELSE "AA"

MatchRow(team, slot, v) ==
    [team |-> team, opp |-> OtherTeam(team), season |-> slot.season, week |-> slot.week,
     stats |-> [col \in base_feature_cols |-> IF col = "total_epa" THEN v ELSE 7 - 2 * v]]

\* The frame holding cells[<<t, k>>] for team t in slot k (0: no row), in the
\* order compute_rolling_team_stats returns: by team, season, week.
RECURSIVE MatchFrameFrom(_, _)
MatchFrameFrom(cells, n) ==
    IF n = 0 THEN <<>>
    ELSE LET t == MatchTeams[((n - 1) \div Len(MatchSlots)) + 1]
             k == ((n - 1) % Len(MatchSlots)) + 1
             rest == MatchFrameFrom(cells, n - 1)
         IN  IF cells[n] = 0 THEN rest
             ELSE Append(rest, MatchRow(t, MatchSlots[k], cells[n]))

NCells == Len(MatchTeams) * Len(MatchSlots)
MatchCells == {c \in [1..NCells -> 0..MaxStat] : \E n \in 1..NCells : c[n] # 0}

\* The cells that differ from c in exactly one place, where c has a row:
\* that row's statistics changed, or the row removed.
MatchVariants(c) ==
    {[c EXCEPT ![n] = v] : <<n, v>> \in {p \in (1..NCells) \X (0..MaxStat) :
                                            c[p[1]] # 0 /\ p[2] # c[p[1]]}}

InitMatch ==
    /\ pc = "match"
    /\ \E c \in MatchCells :
         \E c2 \in MatchVariants(c) \cup {c} :
            /\ match_df = MatchFrameFrom(c, NCells)
            /\ match_df_alt = MatchFrameFrom(c2, NCells)
    /\ match_out = Null
    /\ match_out_alt = Null
    /\ pbp_hist = Unused /\ hist_games = Unused /\ hist_merged = Unused
    /\ roll_df = Unused /\ n_seasons = Unused /\ rolled = Unused
    /\ games_recent = Unused /\ team_common_scores = Unused /\ schedule_2025 = Unused
    /\ pred_input = Unused /\ final_preds = Unused
    /\ blend_team = Unused /\ blend_raw = Unused
    /\ pre_snap = Unused /\ blend_out = Unused

\* Line 113: hist_merged = add_matchup_adjusted_features(hist_merged), on the
\* frame and on its variant.
AddMatchupFeatures ==
    /\ pc = "match"
    /\ match_out' = add_matchup_adjusted_features(match_df)
    /\ match_out_alt' = add_matchup_adjusted_features(match_df_alt)
    /\ pc' = "done"
    /\ UNCHANGED <<match_df, match_df_alt>>
    /\ UNCHANGED <<aggVars, rollVars, predVars, blendVars>>

NextMatch == AddMatchupFeatures

SpecMatch == InitMatch /\ [][NextMatch]_vars

SameGame(a, b) == a.team = b.team /\ a.season = b.season /\ a.week = b.week

\* The rows of match_df that match_df_alt changed or dropped.
Touched == {j \in 1..Len(match_df) :
               \A y \in 1..Len(match_df_alt) : match_df_alt[y] # match_df[j]}

HasPrior(frame, row) ==
    \E j \in 1..Len(frame) : frame[j].team = row.opp /\ frame[j].season < row.season

\* Row x of match_out is unaffected by the change: its _vs_opp values are
\* those of the same game's row in match_out_alt.
Unaffected(x) ==
    \E y \in 1..Len(match_out_alt) :
        /\ SameGame(match_out_alt[y], match_out[x])
        /\ match_out_alt[y].vs_opp = match_out[x].vs_opp

\* Every touched row is another row, of x's opponent, of x's season or later.
OnlyLaterOpponentRowsTouched(x) ==
    /\ Touched # {}
    /\ \A j \in Touched :
          /\ j # x
          /\ match_df[j].team = match_df[x].opp
          /\ match_df[j].season >= match_df[x].season

\* C1 as stated: changing or removing a row of the opponent with season >= S
\* leaves the row's _vs_opp values unchanged, also when the opponent has no
\* row with season < S.
C1_NoLeakEver ==
    pc = "done" =>
        \A x \in 1..Len(match_df) :
            OnlyLaterOpponentRowsTouched(x) => Unaffected(x)

\* C1, amended: for a row whose opponent has at least one row with season < S,
\* changing or removing a row of the opponent with season >= S leaves the
\* row's _vs_opp values unchanged.
C1_NoLeakWithPriorSeason ==
    pc = "done" =>
        \A x \in 1..Len(match_df) :
            (OnlyLaterOpponentRowsTouched(x) /\ HasPrior(match_df, match_df[x]))
                => Unaffected(x)

\* A same-season row of the opponent has been changed for a row whose
\* opponent has earlier-season rows.
C1_Witness ==
    /\ pc = "done"
    /\ \E x \in 1..Len(match_df) :
          /\ OnlyLaterOpponentRowsTouched(x)
          /\ HasPrior(match_df, match_df[x])
          /\ Len(match_df_alt) = Len(match_df)
          /\ Unaffected(x)

\* The last row, in (season, week) order, of the opponent before season S.
LastPriorRow(frame, row) ==
    CHOOSE j \in 1..Len(frame) :
        /\ frame[j].team = row.opp /\ frame[j].season < row.season
        /\ \A j2 \in 1..Len(frame) :
              (frame[j2].team = row.opp /\ frame[j2].season < row.season) =>
                  \/ frame[j2].season < frame[j].season
                  \/ frame[j2].season = frame[j].season /\ frame[j2].week <= frame[j].week

\* C2 as stated: when the opponent has a row with season < S, each _vs_opp is
\* the row's own statistic minus that statistic in the chronologically last
\* such row.
C2_LastPriorRowBaseline ==
    pc = "done" =>
        \A x \in 1..Len(match_df) :
            HasPrior(match_df, match_df[x]) =>
                \A col \in base_feature_cols :
                    match_out[x].vs_opp[col] =
                        RSub(RInt(match_df[x].stats[col]),
                             RInt(match_df[LastPriorRow(match_df, match_df[x])].stats[col]))

\* C2, amended: when the opponent has a row with season < S, each _vs_opp is
\* the row's own statistic minus the mean of that statistic over all rows of
\* the opponent with season < S.
C2_PriorMeanBaseline ==
    pc = "done" =>
        \A x \in 1..Len(match_df) :
            HasPrior(match_df, match_df[x]) =>
                \A prior \in {{j \in 1..Len(match_df) :
                                 /\ match_df[j].team = match_df[x].opp
                                 /\ match_df[j].season < match_df[x].season}} :
                \A col \in base_feature_cols :
                    match_out[x].vs_opp[col] =
                        RSub(RInt(match_df[x].stats[col]),
                             Rat(SumOver(prior, match_df, col), Cardinality(prior)))

\* A row whose opponent has two earlier rows with different statistics.
C2_Witness ==
    /\ pc = "done"
    /\ \E x \in 1..Len(match_df) :
          \E j, j2 \in 1..Len(match_df) :
             /\ match_df[j].team = match_df[x].opp /\ match_df[j].season < match_df[x].season
             /\ match_df[j2].team = match_df[x].opp /\ match_df[j2].season < match_df[x].season
             /\ match_df[j].stats # match_df[j2].stats
             /\ match_out[x].vs_opp["total_epa"][2] = 2

\* C6: when the opponent has no row with season < S, each _vs_opp is the
\* row's own statistic minus the mean of that statistic over every row of the
\* frame, and every row gets its values.
C6_FallbackIsFrameMean ==
    pc = "done" =>
        /\ Len(match_out) = Len(match_df)
        /\ \A x \in 1..Len(match_df) :
              ~HasPrior(match_df, match_df[x]) =>
                 \A col \in base_feature_cols :
                    match_out[x].vs_opp[col] =
                        RSub(RInt(match_df[x].stats[col]),
                             Rat(SumOver(1..Len(match_df), match_df, col), Len(match_df)))

\* A row whose opponent has rows, none of an earlier season, in a frame of at
\* least three rows of both teams, got a non-zero difference.
C6_Witness ==
    /\ pc = "done"
    /\ Len(match_df) >= 3
    /\ \E x \in 1..Len(match_df) :
          /\ ~HasPrior(match_df, match_df[x])
          /\ \E j \in 1..Len(match_df) : match_df[j].team = match_df[x].opp
          /\ \E j \in 1..Len(match_df) :
                j # x /\ match_df[j].team = match_df[x].team
                      /\ match_df[j].stats # match_df[x].stats
          /\ match_out[x].vs_opp["total_epa"] # RInt(0)

----------------------------------------------------------------------------
(* build_game_level_df and the score merge (lines 18-67).                  *)

\* schedule_hist (line 60): the games of the loaded seasons, in game order.
schedule_hist ==
    <<[game_id |-> "2023_01_BB_AA", season |-> 2023, week |-> 1,
       home_team |-> "AA", away_team |-> "BB", home_score |-> 24, away_score |-> 17],
      [game_id |-> "2023_02_ZZ_BB", season |-> 2023, week |-> 2,
       home_team |-> "BB", away_team |-> "ZZ", home_score |-> 20, away_score |-> 27]>>

\* A missing team identifier (NaN in posteam or defteam).
NoTeam == "NaN"

\* Line 32, mutant: no row is dropped.
drop_missing_teams_none(df) == df

\* Line 32: dropna(subset=["posteam", "defteam"]).
drop_missing_teams(df) ==
    SelectSeq(df, LAMBDA r : r.posteam # NoTeam /\ r.defteam # NoTeam)

GroupKey(r) ==
    [game_id |-> r.game_id, season |-> r.season, week |-> r.week,
     posteam |-> r.posteam, defteam |-> r.defteam]

\* The plays' teams as sort keys; a missing team sorts last.
TeamKey(t) == IF t = NoTeam THEN Len(Teams) + 1 ELSE TeamRank(t)

\* groupby sorts its keys: game_id (season, week first), posteam, defteam.
GroupKeyOrder(k) ==
    ((k.season * 100 + k.week) * 10 + TeamKey(k.posteam)) * 10 + TeamKey(k.defteam)

\* Lines 34-51: one row per group with its aggregates.
aggregate_group(df, key) ==
    LET members == SelectSeq(df, LAMBDA r : GroupKey(r) = key)
    IN  [game_id |-> key.game_id, season |-> key.season, week |-> key.week,
         posteam |-> key.posteam, defteam |-> key.defteam,
         plays |-> Len(members),
         stats |-> [col \in base_feature_cols |->
                      IF col = "total_epa"
                      THEN SumSeq([i \in 1..Len(members) |-> members[i].epa])
                      ELSE SumSeq([i \in 1..Len(members) |-> members[i].yards_gained])]]

\* Lines 18-52.
build_game_level_df(pbp) ==
    LET df == drop_missing_teams(pbp)
        keys == unique(StableSort([i \in 1..Len(df) |-> GroupKey(df[i])],
                                  [i \in 1..Len(df) |-> GroupKeyOrder(GroupKey(df[i]))]))
    IN  [i \in 1..Len(keys) |-> aggregate_group(df, keys[i])]

\* Lines 63-65: scores_long, the home rows followed by the away rows.
scores_long(schedule) ==
    [i \in 1..Len(schedule) |->
        [game_id |-> schedule[i].game_id, team |-> schedule[i].home_team,
         opp |-> schedule[i].away_team, score |-> schedule[i].home_score]]
    \o [i \in 1..Len(schedule) |->
        [game_id |-> schedule[i].game_id, team |-> schedule[i].away_team,
         opp |-> schedule[i].home_team, score |-> schedule[i].away_score]]

\* Line 67: inner merge on (game_id, posteam) = (game_id, team).
RECURSIVE merge_scores(_, _)
merge_scores(games, scores) ==
    IF games = <<>> THEN <<>>
    ELSE LET g == Head(games)
             matches == SelectSeq(scores, LAMBDA sc : sc.game_id = g.game_id
                                                       /\ sc.team = g.posteam)
         IN  [k \in 1..Len(matches) |->
                g @@ [team |-> matches[k].team, opp |-> matches[k].opp,
                      score |-> matches[k].score]]
             \o merge_scores(Tail(games), scores)

\* Bounds of the aggregation stage's inputs: up to MaxPlays plays of the
\* scheduled games; the offense is a participant or missing, the defense is
\* the other participant or missing.
MaxPlays == 3
EpaVals == {1, 2}
Play(g, pos, def, epa) ==
    [game_id |-> g.game_id, season |-> g.season, week |-> g.week,
     posteam |-> pos, defteam |-> def, epa |-> epa, yards_gained |-> 7 - 2 * epa]
PlayKinds ==
    UNION {
        UNION {{Play(schedule_hist[i], schedule_hist[i].home_team,
                     schedule_hist[i].away_team, e),
                Play(schedule_hist[i], schedule_hist[i].away_team,
                     schedule_hist[i].home_team, e),
                Play(schedule_hist[i], schedule_hist[i].home_team, NoTeam, e),
                Play(schedule_hist[i], NoTeam, schedule_hist[i].home_team, e),
                Play(schedule_hist[i], NoTeam, NoTeam, e)} : e \in EpaVals}
        : i \in 1..Len(schedule_hist)}

\* Plays come game by game.
PlaySeqs ==
    {s \in BoundedSeqs(PlayKinds, MaxPlays) :
        \A i \in 1..(Len(s) - 1) : s[i].week <= s[i + 1].week}

InitAgg ==
    /\ pc = "build"
    /\ pbp_hist \in PlaySeqs
    /\ hist_games = Null
    /\ hist_merged = Null
    /\ roll_df = Unused /\ n_seasons = Unused /\ rolled = Unused
    /\ match_df = Unused /\ match_df_alt = Unused
    /\ match_out = Unused /\ match_out_alt = Unused
    /\ games_recent = Unused /\ team_common_scores = Unused /\ schedule_2025 = Unused
    /\ pred_input = Unused /\ final_preds = Unused
    /\ blend_team = Unused /\ blend_raw = Unused
    /\ pre_snap = Unused /\ blend_out = Unused

\* Line 54: hist_games = build_game_level_df(pbp_hist).
BuildGameLevel ==
    /\ pc = "build"
    /\ hist_games' = build_game_level_df(pbp_hist)
    /\ pc' = "merge"
    /\ UNCHANGED <<pbp_hist, hist_merged>>
    /\ UNCHANGED <<rollVars, matchVars, predVars, blendVars>>

\* Lines 60-67: hist_merged = hist_games.merge(scores_long, ...).
MergeScores ==
    /\ pc = "merge"
    /\ hist_merged' = merge_scores(hist_games, scores_long(schedule_hist))
    /\ pc' = "done"
    /\ UNCHANGED <<pbp_hist, hist_games>>
    /\ UNCHANGED <<rollVars, matchVars, predVars, blendVars>>

NextAgg == BuildGameLevel \/ MergeScores

SpecAgg == InitAgg /\ [][NextAgg]_vars

PlayedGameIds == {pbp_hist[i].game_id : i \in 1..Len(pbp_hist)}
MergedRowsOf(gid) == {x \in 1..Len(hist_merged) : hist_merged[x].game_id = gid}

\* The participants of game gid with at least one play on offense that names
\* both teams.
TeamsWithKeptPlays(gid) ==
    {pbp_hist[i].posteam : i \in {i2 \in 1..Len(pbp_hist) :
                                    /\ pbp_hist[i2].game_id = gid
                                    /\ pbp_hist[i2].posteam # NoTeam
                                    /\ pbp_hist[i2].defteam # NoTeam}}

\* C9 as stated: every game id of the play set has exactly two merged rows,
\* one per participant, with mirrored (team, opponent) pairs.
C9_TwoMirrorRowsPerGame ==
    pc = "done" =>
        \A gid \in PlayedGameIds :
            /\ Cardinality(MergedRowsOf(gid)) = 2
            /\ \E x, y \in MergedRowsOf(gid) :
                  /\ x # y
                  /\ hist_merged[x].team = hist_merged[y].opp
                  /\ hist_merged[x].opp = hist_merged[y].team

\* C9, amended: every game id of the play set has one merged row for each
\* participant that has a play on offense naming both teams, and no other row,
\* so at most two; when both participants have such a play the rows are
\* exactly two with mirrored (team, opponent) pairs.
C9_OneRowPerTeamWithPlays ==
    pc = "done" =>
        \A gid \in PlayedGameIds :
            /\ Cardinality(MergedRowsOf(gid)) = Cardinality(TeamsWithKeptPlays(gid))
            /\ Cardinality(MergedRowsOf(gid)) <= 2
            /\ \A t \in TeamsWithKeptPlays(gid) :
                  \E x \in MergedRowsOf(gid) :
                     /\ hist_merged[x].team = t
                     /\ hist_merged[x].posteam = t
                     /\ hist_merged[x].opp = hist_merged[x].defteam
                     /\ hist_merged[x].opp # t
            /\ Cardinality(TeamsWithKeptPlays(gid)) = 2 =>
                  \E x, y \in MergedRowsOf(gid) :
                     /\ x # y
                     /\ hist_merged[x].team = hist_merged[y].opp
                     /\ hist_merged[x].opp = hist_merged[y].team

\* A game with a dropped play and a kept play of each participant has its
\* two rows.
C9_Witness ==
    /\ pc = "done"
    /\ \E gid \in PlayedGameIds :
          /\ Cardinality(TeamsWithKeptPlays(gid)) = 2
          /\ Cardinality(MergedRowsOf(gid)) = 2
          /\ \E i \in 1..Len(pbp_hist) :
                pbp_hist[i].game_id = gid /\ pbp_hist[i].defteam = NoTeam

====
